---- MODULE Spec2Model ----
(***************************************************************************)
(* Module upgrade pipeline of his-auto-upgrade: UpgradeService             *)
(* (upgradeModule, batchUpgrade, getModulesStatus and their private        *)
(* steps), as written in backend/src/upgrade/upgrade.service.ts, which     *)
(* holds two implementations: one on fs-extra and one on node:fs.          *)
(*                                                                         *)
(* Every await of the service is one action.  External commands (git, npm, *)
(* the build command) and filesystem calls succeed or fail                 *)
(* nondeterministically, up to MaxFaults failures in a behaviour; what a   *)
(* repository holds and what its build writes is fixed per module by the   *)
(* environment chosen in Init.                                             *)
(***************************************************************************)
EXTENDS Integers, Sequences, FiniteSets, TLC

\* ------------------------------------------------------------------ bounds

\* Pipeline runs (upgradeModule bodies entered) in one behaviour.
MaxRuns == 2
\* Length of the moduleNames argument of batchUpgrade.
MaxNames == 2
\* Commands and filesystem calls that fail in one behaviour.
MaxFaults == 1
\* Pipeline runs in one behaviour with overlapping requests.
MaxOverlapRuns == 2

\* ----------------------------------------------------------- configuration

\* The two implementations of UpgradeService in upgrade.service.ts.
Variants == {"fsExtra", "nodeFs"}

\* this.modules: the configured modules, in configuration order.
modules ==
  << [name |-> "microfrontend-admin", type |-> "microfrontend"],
     [name |-> "microfrontend-user",  type |-> "microfrontend"],
     [name |-> "auth-service",        type |-> "backend"] >>

ModuleNames == { modules[i].name : i \in 1..Len(modules) }

\* A module name no configuration entry carries.
UnknownName == "ghost"

Names == ModuleNames \cup {UnknownName}

\* A lookup that falls back to the first entry when no entry carries the
\* name; find itself gives undefined (0) then.
FindModuleOrFirst(moduleName) ==
  IF \E i \in 1..Len(modules) : modules[i].name = moduleName
  THEN CHOOSE i \in 1..Len(modules) : modules[i].name = moduleName
  ELSE 1

\* modules.find((m) => m.name === moduleName): the index of the first entry
\* with that name, 0 when there is none.
FindModule(moduleName) ==
  IF \E i \in 1..Len(modules) : modules[i].name = moduleName
  THEN CHOOSE i \in 1..Len(modules) :
         /\ modules[i].name = moduleName
         /\ \A j \in 1..(i-1) : modules[j].name # moduleName
  ELSE 0

TypeOf(moduleName) == modules[FindModule(moduleName)].type

\* ----------------------------------------------------------------- strings

\* Version strings are sequences of characters, so that case and prefixes
\* are visible to a comparison.
Unknown == <<"u","n","k","n","o","w","n">>
V100    == <<"1",".","0",".","0">>
Vv100   == <<"v","1",".","0",".","0">>
VV100   == <<"V","1",".","0",".","0">>
V110    == <<"1",".","1",".","0">>
ShortRev == <<"a","b","c","1","2","3","4">>
NoText  == <<>>

\* ------------------------------------------------------------- directories

\* A directory is [exists, files]; a file is [name, data, valid]: data is the
\* version field of a package.json (NoText when it has none) and valid says
\* whether the file parses as JSON.
Absent == [exists |-> FALSE, files |-> {}]
EmptyDir == [exists |-> TRUE, files |-> {}]
Dir(files) == [exists |-> TRUE, files |-> files]

File(name) == [name |-> name, data |-> NoText, valid |-> TRUE]
Manifest(version, valid) == [name |-> "package.json", data |-> version, valid |-> valid]

\* fs.pathExists(path.join(dir, name)) / fs.access(..., F_OK)
pathExists(dir, name) == dir.exists /\ \E f \in dir.files : f.name = name

TheFile(dir, name) == CHOOSE f \in dir.files : f.name = name

\* copy(src, dest): every entry of src is written into dest, replacing an
\* entry of the same name and keeping the other entries of dest.
CopyInto(srcFiles, destFiles) ==
  srcFiles \cup { f \in destFiles : \A g \in srcFiles : g.name # f.name }

\* ------------------------------------------------------------- environment

\* The directories deployBuild probes for a frontend, in probing order.
possibleDirs == <<"dist", "build", "out", "public">>

OutDirs == { possibleDirs[i] : i \in 1..Len(possibleDirs) }

\* What an output directory holds once built: one bundle, named after the
\* directory so that its origin stays visible after it is copied.
ContentsOf(d) ==
  CASE d = "dist"   -> {File("dist.bundle")}
    [] d = "build"  -> {File("build.bundle")}
    [] d = "out"    -> {File("out.bundle")}
    [] d = "public" -> {File("public.bundle")}

\* The 40 hexadecimal digits of a commit id, shortened to nine characters.
CommitId == ShortRev \o <<"5", "6">>

\* One line of `git ls-remote --tags`: "<id>\trefs/tags/<tag>[^{}]\n".  The
\* ref prefix and the peel suffix are kept as one element each.
TagLine(tag, peeled) ==
  CommitId \o <<"\t", "refs/tags/">> \o tag
    \o (IF peeled THEN <<"^{}">> ELSE <<>>) \o <<"\n">>

\* A repository: the files a clone checks out besides .git, the output
\* directories its build command writes, the last line of its
\* `git ls-remote --tags` (NoText without tags), and what `git describe
\* --tags --abbrev=0 || git rev-parse --short HEAD` prints in a clone.
Repo(files, outs, tags, describe) ==
  [files |-> files, outs |-> outs, tags |-> tags, describe |-> describe]

\* The environments a behaviour starts in: per module its repository and
\* the state of its deploy path.
Env1 ==
  [ remote |->
      [ n \in ModuleNames |->
          CASE n = "microfrontend-admin" ->
                 Repo({Manifest(V100, TRUE)}, {"dist", "public"},
                      TagLine(V110, FALSE), V110 \o <<"\n">>)
            [] n = "microfrontend-user" ->
                 Repo({}, {"build"}, NoText, ShortRev \o <<"\n">>)
            [] n = "auth-service" ->
                 Repo({Manifest(V100, TRUE)}, {},
                      TagLine(Vv100, TRUE), Vv100 \o <<"\n">>) ],
    deploy |->
      [ n \in ModuleNames |->
          CASE n = "microfrontend-admin" -> Dir({File("legacy.bundle")})
            [] n = "microfrontend-user"  -> Absent
            [] n = "auth-service"        -> Dir({Manifest(Vv100, TRUE), File("legacy.bundle")}) ] ]

Env2 ==
  [ remote |->
      [ n \in ModuleNames |->
          CASE n = "microfrontend-admin" ->
                 Repo({}, {}, TagLine(V100, FALSE), V100 \o <<"\n">>)
            [] n = "microfrontend-user" ->
                 Repo({Manifest(NoText, TRUE)}, {"out", "public"},
                      TagLine(V100, FALSE), V100 \o <<"\n">>)
            [] n = "auth-service" ->
                 Repo({Manifest(V100, FALSE)}, {"dist"},
                      TagLine(Vv100, TRUE), Vv100 \o <<"\n">>) ],
    deploy |->
      [ n \in ModuleNames |->
          CASE n = "microfrontend-admin" -> Absent
            [] n = "microfrontend-user"  -> Dir({Manifest(V100, FALSE)})
            [] n = "auth-service"        -> Dir({Manifest(VV100, TRUE)}) ] ]

Environments == {Env1, Env2}

\* ------------------------------------------------------------------- state

\* Requests being served at once (the controller's handlers in flight).
Slots == {1, 2}

VARIABLES
  variant,   \* which implementation of UpgradeService runs
  remote,    \* per module, its repository (fixed by the environment)
  ws,        \* /tmp/upgrade/<name>: the workspace directory per name
  deploy,    \* module.deployPath, per module
  backups,   \* /var/www/backups/<name>: the snapshots taken, oldest first
  pc,        \* per slot, the await the request is at
  req,       \* per slot, the request (last) received
  run,       \* per slot, the locals of the upgradeModule call in progress
  batch,     \* per slot, the locals of the batchUpgrade call in progress
  status,    \* per slot, the locals of the getModulesStatus call in progress
  resp,      \* per slot, what the (last) request returned or threw
  runs,      \* pipeline runs started so far
  faults,    \* commands and filesystem calls that have failed so far
  previous,  \* per module, what its latest run gave when it succeeded
  reference  \* the fs-extra run that a node:fs run of the same request is held against

vars == <<variant, remote, ws, deploy, backups, pc, req, run, batch, status, resp, runs,
          faults, previous, reference>>

fsVars == <<ws, deploy, backups>>

\* ---------------------------------------------------------------- records

\* UpgradeResult; message is kept structured: its kind, and the version or
\* the error text it quotes.
UpgradeResult(success, module, kind, hasVersion, version, error) ==
  [ success |-> success, module |-> module,
    message |-> [kind |-> kind, version |-> version, error |-> error],
    hasVersion |-> hasVersion, version |-> version ]

NoRequest == [kind |-> "none", module |-> "", given |-> FALSE, names |-> <<>>]
NoRun == [module |-> "", out |-> "", err |-> "none", version |-> NoText, log |-> <<>>,
          start |-> [exists |-> FALSE, files |-> {}],
          manifest |-> FALSE]   \* getVersion returned from its package.json branch
NoBatch == [todo |-> <<>>, attempted |-> <<>>, results |-> <<>>]
NoStatus == [idx |-> 0, list |-> <<>>]
NoResponse == [kind |-> "none", results |-> <<>>, error |-> "none", list |-> <<>>]

Event(step, res) == [step |-> step, res |-> res]

\* What is remembered of a module's latest run: the version it resolved and
\* the files it left in the deploy path, when every step of it succeeded;
\* whether it left its workspace behind; and what its caller saw: whether
\* it returned success=true, the version in that result, whether getVersion
\* read it from the workspace's package.json, and the build output deployed.
NoOutcome ==
  [ ran |-> FALSE, version |-> NoText, files |-> {}, left |-> FALSE,
    success |-> FALSE, returned |-> NoText, manifest |-> FALSE, out |-> "" ]

\* What is kept of a finished run to compare another with: the steps in
\* which a command or filesystem call failed, whether the call returned or
\* threw, the stages it went through, and the deploy path and backups it left.
NoReference ==
  [ taken |-> FALSE, module |-> "", failed |-> {}, threw |-> FALSE, stages |-> {},
    deploy |-> [exists |-> FALSE, files |-> {}], backups |-> <<>> ]

Init ==
  /\ variant \in Variants
  /\ \E env \in Environments :
       /\ remote = env.remote
       /\ deploy = env.deploy
  /\ ws = [n \in Names |-> Absent]
  /\ backups = [n \in ModuleNames |-> <<>>]
  /\ pc = [s \in Slots |-> "idle"]
  /\ req = [s \in Slots |-> NoRequest]
  /\ run = [s \in Slots |-> NoRun]
  /\ batch = [s \in Slots |-> NoBatch]
  /\ status = [s \in Slots |-> NoStatus]
  /\ resp = [s \in Slots |-> NoResponse]
  /\ runs = 0
  /\ faults = 0
  /\ previous = [n \in ModuleNames |-> NoOutcome]
  /\ reference = NoReference

\* ------------------------------------------------------------ the pipeline

\* The step that follows a step of upgradeModule's try block when the step
\* returns normally; deployBuild is the four awaits "deploy" (output
\* discovery), "clear", "target" (node:fs only) and "copy".
StepAfter(v, step) ==
  CASE step = "mkdir"   -> "fetch"
    [] step = "fetch"   -> "install"
    [] step = "install" -> "build"
    [] step = "build"   -> "backup"
    [] step = "backup"  -> "deploy"
    [] step = "deploy"  -> "clear"
    [] step = "clear"   -> IF v = "nodeFs" THEN "target" ELSE "copy"
    [] step = "target"  -> "copy"
    [] step = "copy"    -> "version"
    [] step = "version" -> "cleanup"

\* Steps none of which catches a failure of its commands or calls.
StepThrowsAlways(v, step) == TRUE

\* Whether a failed command or filesystem call inside a step rejects the
\* step's promise (TRUE) or is caught inside the step (FALSE).
StepThrows(v, step) ==
  CASE step = "install" -> v # "nodeFs"   \* node:fs: try { access; npm ci } catch {}
    [] step = "backup"  -> v # "nodeFs"   \* node:fs: try { access; mkdir; cp } catch {}
    [] step = "clear"   -> v # "nodeFs"   \* node:fs: try { access; rm } catch {}
    [] step = "version" -> FALSE          \* getVersion catches everything
    [] step = "cleanup" -> FALSE          \* cleanupTemp warns
    [] OTHER -> TRUE

\* The environment makes a command or a filesystem call fail.
Fault == faults < MaxFaults /\ faults' = faults + 1

\* The step's commands and calls succeeded and it returned: record it and
\* go on to the next await.
Passed(s, step, res) ==
  /\ pc' = [pc EXCEPT ![s] = StepAfter(variant, step)]
  /\ run' = [run EXCEPT ![s].log = Append(@, Event(step, res))]

Returned(s, step, res) == Passed(s, step, res) /\ faults' = faults

\* A throw that neither catch nor finally receives: the call stays pending.
ThrownPending(s, step) ==
  /\ pc' = [pc EXCEPT ![s] = "pending"]
  /\ run' = [run EXCEPT ![s].err = step,
                        ![s].log = Append(@, Event(step, "threw"))]

\* The step throws: control goes to catch and finally.
Thrown(s, step) ==
  /\ pc' = [pc EXCEPT ![s] = "cleanup"]
  /\ run' = [run EXCEPT ![s].err = step,
                        ![s].log = Append(@, Event(step, "threw"))]

\* A command or call of the step failed: the step's promise rejects, or the
\* step swallows the failure and returns.
Failed(s, step) ==
  /\ Fault
  /\ IF StepThrows(variant, step) THEN Thrown(s, step)
     ELSE Passed(s, step, "swallowed")

\* 1. fs.ensureDir(tempDir) / fs.mkdir(tempDir, {recursive: true})
ensureDir(s) ==
  /\ pc[s] = "mkdir"
  /\ LET m == run[s].module IN
       \/ /\ ws' = [ws EXCEPT ![m] = IF @.exists THEN @ ELSE EmptyDir]
          /\ Returned(s, "mkdir", "ok")
       \/ /\ ws' = ws
          /\ Failed(s, "mkdir")
  /\ UNCHANGED <<reference, previous, variant, remote, deploy, backups, req, batch, status, resp, runs>>

\* A fetch that updates in place whenever the workspace directory exists,
\* where gitCloneOrPull looks for .git in it.
gitPullIfExists(s) ==
  /\ pc[s] = "fetch"
  /\ LET m == run[s].module
         tree == {File(".git")} \cup remote[m].files
         how == IF ws[m].exists THEN "pulled" ELSE "cloned"
     IN
       \/ /\ ws' = [ws EXCEPT ![m] = Dir(CopyInto(tree, @.files))]
          /\ Returned(s, "fetch", how)
       \/ /\ ws' = ws
          /\ Failed(s, "fetch")
  /\ UNCHANGED <<reference, previous, variant, remote, deploy, backups, req, batch, status, resp, runs>>

\* 2. gitCloneOrPull: pull when tempDir/.git exists, clone otherwise.  A pull
\* leaves untracked files (an earlier build's output) where they are.
gitCloneOrPull(s) ==
  /\ pc[s] = "fetch"
  /\ LET m == run[s].module
         tree == {File(".git")} \cup remote[m].files
         how == IF pathExists(ws[m], ".git") THEN "pulled" ELSE "cloned"
     IN
       \/ /\ ws' = [ws EXCEPT ![m] = Dir(CopyInto(tree, @.files))]
          /\ Returned(s, "fetch", how)
       \/ /\ ws' = ws
          /\ Failed(s, "fetch")
  /\ UNCHANGED <<reference, previous, variant, remote, deploy, backups, req, batch, status, resp, runs>>

\* An install that runs npm ci whether or not package.json exists.
npmInstallAlways(s) ==
  /\ pc[s] = "install"
  /\ LET m == run[s].module IN
       \/ /\ ws' = [ws EXCEPT ![m] = Dir(CopyInto({File("node_modules")}, @.files))]
          /\ Returned(s, "install", "ok")
       \/ /\ ws' = ws
          /\ Failed(s, "install")
  /\ UNCHANGED <<reference, previous, variant, remote, deploy, backups, req, batch, status, resp, runs>>

\* 3. npmInstall: npm ci when tempDir/package.json exists.
npmInstall(s) ==
  /\ pc[s] = "install"
  /\ LET m == run[s].module IN
       IF pathExists(ws[m], "package.json")
       THEN \/ /\ ws' = [ws EXCEPT ![m] = Dir(CopyInto({File("node_modules")}, @.files))]
               /\ Returned(s, "install", "ok")
            \/ /\ ws' = ws
               /\ Failed(s, "install")
       ELSE /\ ws' = ws
            /\ Returned(s, "install", "skipped")
  /\ UNCHANGED <<reference, previous, variant, remote, deploy, backups, req, batch, status, resp, runs>>

\* 4. buildProject: the build command writes the repository's output
\* directories into the workspace; `cd tempDir` fails when the workspace is
\* gone.
buildProject(s) ==
  /\ pc[s] = "build"
  /\ LET m == run[s].module IN
       IF ws[m].exists
       THEN \/ /\ ws' = [ws EXCEPT ![m] =
                           Dir(CopyInto({File(d) : d \in remote[m].outs}, @.files))]
               /\ Returned(s, "build", "ok")
            \/ /\ ws' = ws
               /\ Failed(s, "build")
       ELSE /\ ws' = ws
            /\ faults' = faults
            /\ Thrown(s, "build")
  /\ UNCHANGED <<reference, previous, variant, remote, deploy, backups, req, batch, status, resp, runs>>

\* What a copy that fails part-way may have written: any of the files but
\* not all of them.
PartialCopies(files) == { part \in SUBSET files : part # files \/ files = {} }

\* A backup that renames the deploy path into the backup root, where
\* backupCurrent copies it.
backupByMove(s) ==
  /\ pc[s] = "backup"
  /\ LET m == run[s].module IN
       IF deploy[m].exists
       THEN /\ backups' = [backups EXCEPT ![m] = Append(@, deploy[m].files)]
            /\ deploy' = [deploy EXCEPT ![m] = Absent]
            /\ Returned(s, "backup", "ok")
       ELSE /\ backups' = backups
            /\ deploy' = deploy
            /\ Returned(s, "backup", "skipped")
  /\ UNCHANGED <<reference, previous, variant, remote, ws, req, batch, status, resp, runs>>

\* 5. backupCurrent: when deployPath exists, copy it to a new directory
\* /var/www/backups/<name>/<timestamp>.
backupCurrent(s) ==
  /\ pc[s] = "backup"
  /\ LET m == run[s].module IN
       IF deploy[m].exists
       THEN \/ /\ backups' = [backups EXCEPT ![m] = Append(@, deploy[m].files)]
               /\ Returned(s, "backup", "ok")
            \/ /\ \E part \in PartialCopies(deploy[m].files) :
                    backups' = [backups EXCEPT ![m] =
                                  IF part = {} THEN @ ELSE Append(@, part)]
               /\ Failed(s, "backup")
       ELSE /\ backups' = backups
            /\ Returned(s, "backup", "skipped")
  /\ UNCHANGED <<reference, previous, variant, remote, ws, deploy, req, batch, status, resp, runs>>

\* A discovery that keeps probing after a hit, so that the last existing
\* directory wins; the loop of deployBuild breaks at the first.
LastExisting(dir, i) ==
  LET present == { j \in i..Len(possibleDirs) : pathExists(dir, possibleDirs[j]) }
  IN IF present = {} THEN ""
     ELSE possibleDirs[CHOOSE j \in present : \A k \in present : j >= k]

\* deployBuild, output discovery: the first of possibleDirs that exists in
\* the workspace for a frontend or microfrontend ("" when none does); dist,
\* or else the workspace itself ("."), for a backend.
FirstExisting(dir, i) ==
  LET present == { j \in i..Len(possibleDirs) : pathExists(dir, possibleDirs[j]) }
  IN IF present = {} THEN ""
     ELSE possibleDirs[CHOOSE j \in present : \A k \in present : j <= k]

\* A discovery that probes the four directories for every type of module
\* and has no fallback.
buildOutputProbed(type, dir) == FirstExisting(dir, 1)

buildOutput(type, dir) ==
  IF type \in {"frontend", "microfrontend"}
  THEN FirstExisting(dir, 1)
  ELSE IF pathExists(dir, "dist") THEN "dist" ELSE "."

\* A deploy that empties the target before it looks for the build output.
deployBuildClearsFirst(s) ==
  /\ pc[s] = "deploy"
  /\ LET m == run[s].module
         out == buildOutput(TypeOf(m), ws[m])
     IN /\ deploy' = [deploy EXCEPT ![m] = EmptyDir]
        /\ IF out = ""
           THEN Thrown(s, "deploy")
           ELSE /\ pc' = [pc EXCEPT ![s] = StepAfter(variant, "deploy")]
                /\ run' = [run EXCEPT ![s].out = out,
                                      ![s].log = Append(@, Event("deploy", "ok"))]
  /\ UNCHANGED <<reference, previous, variant, remote, ws, backups, req, batch, status, resp, runs,
                 faults>>

\* 6a. deployBuild up to `if (!buildOutput) throw`.
deployBuild(s) ==
  /\ pc[s] = "deploy"
  /\ LET m == run[s].module
         out == buildOutput(TypeOf(m), ws[m])
     IN IF out = ""
        THEN Thrown(s, "deploy")   \* throw new Error("未找到构建输出目录")
        ELSE /\ pc' = [pc EXCEPT ![s] = StepAfter(variant, "deploy")]
             /\ run' = [run EXCEPT ![s].out = out,
                                   ![s].log = Append(@, Event("deploy", "ok"))]
  /\ UNCHANGED <<reference, previous, variant, remote, ws, deploy, backups, req, batch, status, resp, runs,
                 faults>>

\* A deploy that only makes sure the target exists and copies over what is
\* there, where deployBuild empties or removes the target first.
deployKeep(s) ==
  /\ pc[s] = "clear"
  /\ deploy' = [deploy EXCEPT ![run[s].module] = IF @.exists THEN @ ELSE EmptyDir]
  /\ Returned(s, "clear", "kept")
  /\ UNCHANGED <<reference, previous, variant, remote, ws, backups, req, batch, status, resp, runs>>

\* 6b. Clearing the target.  fs-extra: emptyDir when it exists, ensureDir
\* otherwise.  node:fs: try { access; rm -rf } catch {}.  A removal that
\* fails may have removed any of the files.
deployClear(s) ==
  /\ pc[s] = "clear"
  /\ LET m == run[s].module IN
       IF deploy[m].exists
       THEN \/ /\ deploy' = [deploy EXCEPT ![m] = IF variant = "nodeFs" THEN Absent ELSE EmptyDir]
               /\ Returned(s, "clear", "removed")
            \/ /\ \E left \in SUBSET deploy[m].files :
                    deploy' = [deploy EXCEPT ![m] = Dir(left)]
               /\ Failed(s, "clear")
       ELSE IF variant = "nodeFs"
            THEN /\ deploy' = deploy
                 /\ Returned(s, "clear", "skipped")
            ELSE \/ /\ deploy' = [deploy EXCEPT ![m] = EmptyDir]
                    /\ Returned(s, "clear", "created")
                 \/ /\ deploy' = deploy
                    /\ Failed(s, "clear")
  /\ UNCHANGED <<reference, previous, variant, remote, ws, backups, req, batch, status, resp, runs>>

\* 6c. node:fs only: fs.mkdir(targetDir, {recursive: true}).
deployMkdir(s) ==
  /\ pc[s] = "target"
  /\ LET m == run[s].module IN
       \/ /\ deploy' = [deploy EXCEPT ![m] = IF @.exists THEN @ ELSE EmptyDir]
          /\ Returned(s, "target", "ok")
       \/ /\ deploy' = deploy
          /\ Failed(s, "target")
  /\ UNCHANGED <<reference, previous, variant, remote, ws, backups, req, batch, status, resp, runs>>

\* A copy of the build artefacts alone, which leaves the manifest of a
\* project deployed as a whole behind.
OutputFilesNoManifest(dir, out) ==
  IF out = "." THEN { f \in dir.files : f.name # "package.json" } ELSE ContentsOf(out)

\* The files under the discovered output directory.
OutputFiles(dir, out) ==
  IF out = "." THEN dir.files ELSE ContentsOf(out)

OutputExists(dir, out) ==
  IF out = "." THEN dir.exists ELSE pathExists(dir, out)

\* 6d. fs.copy(buildOutput, targetDir) / fs.cp(..., {recursive: true}); the
\* copy throws when its source is gone.
deployCopy(s) ==
  /\ pc[s] = "copy"
  /\ LET m == run[s].module
         files == OutputFiles(ws[m], run[s].out)
     IN
       IF OutputExists(ws[m], run[s].out)
       THEN \/ /\ deploy' = [deploy EXCEPT ![m] = Dir(CopyInto(files, @.files))]
               /\ Returned(s, "copy", "ok")
            \/ /\ \E part \in PartialCopies(files) :
                    deploy' = [deploy EXCEPT ![m] =
                                 IF part = {} THEN @ ELSE Dir(CopyInto(part, @.files))]
               /\ Failed(s, "copy")
       ELSE /\ deploy' = deploy
            /\ faults' = faults
            /\ Thrown(s, "copy")
  /\ UNCHANGED <<reference, previous, variant, remote, ws, backups, req, batch, status, resp, runs>>

\* ---------------------------------------------------------------- versions

IsSpace(c) == c \in {" ", "\t", "\n"}

\* String.prototype.trim
RECURSIVE TrimLeft(_)
TrimLeft(str) ==
  IF str # <<>> /\ IsSpace(Head(str)) THEN TrimLeft(Tail(str)) ELSE str

RECURSIVE TrimRight(_)
TrimRight(str) ==
  IF str # <<>> /\ IsSpace(str[Len(str)])
  THEN TrimRight(SubSeq(str, 1, Len(str) - 1)) ELSE str

Trim(str) == TrimRight(TrimLeft(str))

\* pkg.version || "unknown"
OrUnknown(str) == IF str = NoText THEN Unknown ELSE str

\* The outcome of `git describe --tags --abbrev=0 || git rev-parse --short
\* HEAD` in a workspace: what it prints, or that it exits non-zero.
Describe(ok, stdout) == [ok |-> ok, stdout |-> stdout]

FromGit(git) == IF git.ok THEN Trim(git.stdout) ELSE Unknown

\* A version that numbers the runs, where getVersion reads the workspace.
getBuildNumber(v, dir, git) == IF runs = 1 THEN V100 ELSE V110

\* A resolution that asks git first and reads package.json only when git
\* fails, where getVersion reads package.json first.
getVersionGitFirst(v, dir, git) ==
  IF git.ok THEN Trim(git.stdout)
  ELSE IF pathExists(dir, "package.json") /\ TheFile(dir, "package.json").valid
       THEN OrUnknown(TheFile(dir, "package.json").data)
       ELSE Unknown

\* 7. getVersion(tempDir).  fs-extra: a package.json that does not parse
\* gives "unknown"; node:fs: it falls through to git.
getVersion(v, dir, git) ==
  IF pathExists(dir, "package.json")
  THEN LET pkg == TheFile(dir, "package.json") IN
         IF pkg.valid THEN OrUnknown(pkg.data)
         ELSE IF v = "nodeFs" THEN FromGit(git) ELSE Unknown
  ELSE FromGit(git)

\* Whether getVersion returns from `return pkg.version || "unknown"`: the
\* workspace has a package.json and it parses.
ReadsManifest(dir) ==
  pathExists(dir, "package.json") /\ TheFile(dir, "package.json").valid

\* Whether getVersion runs git in this workspace.
AsksGit(v, dir) ==
  IF pathExists(dir, "package.json")
  THEN v = "nodeFs" /\ ~TheFile(dir, "package.json").valid
  ELSE TRUE

\* getVersion(tempDir) in the run; git fails in a workspace that holds no
\* repository (any more).
resolveVersion(s) ==
  /\ pc[s] = "version"
  /\ LET m == run[s].module
         gitWorks == pathExists(ws[m], ".git")
     IN
       \/ /\ gitWorks \/ ~AsksGit(variant, ws[m])
          /\ run' = [run EXCEPT
                      ![s].version = getVersion(variant, ws[m],
                                                Describe(TRUE, remote[m].describe)),
                      ![s].manifest = ReadsManifest(ws[m]),
                      ![s].log = Append(@, Event("version", "ok"))]
          /\ faults' = faults
       \/ /\ AsksGit(variant, ws[m])
          /\ IF gitWorks THEN Fault ELSE faults' = faults
          /\ run' = [run EXCEPT
                      ![s].version = getVersion(variant, ws[m], Describe(FALSE, NoText)),
                      ![s].log = Append(@, Event("version", "swallowed"))]
  /\ pc' = [pc EXCEPT ![s] = StepAfter(variant, "version")]
  /\ UNCHANGED <<reference, previous, variant, remote, ws, deploy, backups, req, batch, status, resp, runs>>

\* ------------------------------------------------- catch, finally, callers

\* Whether upgradeModule's catch block rethrows the error (TRUE) or returns
\* a success=false result built from it (FALSE): both implementations log
\* the error and `throw error`.
CatchRethrows(v) == TRUE

NoResult == UpgradeResult(FALSE, "", "none", FALSE, NoText, "none")

\* A return that leaves the version out of the success result and only
\* quotes it in the message.
OutcomeUnversioned(v, r) ==
  IF r.err = "none"
  THEN [threw |-> FALSE, error |-> "none",
        result |-> UpgradeResult(TRUE, r.module, "upgraded", FALSE, NoText, "none")]
  ELSE [threw |-> TRUE, error |-> r.err, result |-> NoResult]

\* How an upgradeModule call whose try block ended ends for its caller.
Outcome(v, r) ==
  IF r.err = "none"
  THEN [threw |-> FALSE, error |-> "none",
        result |-> UpgradeResult(TRUE, r.module, "upgraded", TRUE, r.version, "none")]
  ELSE IF CatchRethrows(v)
       THEN [threw |-> TRUE, error |-> r.err, result |-> NoResult]
       ELSE [threw |-> FALSE, error |-> "none",
             result |-> UpgradeResult(FALSE, r.module, "failed", FALSE, NoText, r.err)]

\* upgradeModule for a name without configuration.
NotConfigured(moduleName) ==
  UpgradeResult(FALSE, moduleName, "notConfigured", FALSE, NoText, "none")

Returns(results) == [kind |-> "returned", results |-> results, error |-> "none", list |-> <<>>]
Throws(error) == [kind |-> "threw", results |-> <<>>, error |-> error, list |-> <<>>]
Reports(list) == [kind |-> "status", results |-> <<>>, error |-> "none", list |-> list]

\* The locals of an upgradeModule call that enters its try block; start
\* remembers the deploy path as the call found it.
NewRun(moduleName) ==
  [NoRun EXCEPT !.module = moduleName, !.start = deploy[moduleName]]

\* Cleanup at the end of the try block instead of in finally: it would run
\* only when no step threw.
CleansAfterSuccess(err) == err = "none"

\* The try block of run r returned, and no command or filesystem call of
\* its steps failed on the way.
Succeeded(r) ==
  /\ r.err = "none"
  /\ \A i \in 1..Len(r.log) :
       r.log[i].step # "cleanup" => r.log[i].res \notin {"threw", "swallowed"}

\* Whether the finally block runs cleanupTemp after a try block that ended
\* with error err ("none": it returned).
FinallyCleans(err) == TRUE

\* finally { cleanupTemp(tempDir) }, then the return or throw reaches the
\* caller: the controller, or batchUpgrade's loop, which pushes the result
\* and calls upgradeModule for the next module up to its first await.  A
\* finally block that threw would replace the pending return or throw;
\* cleanupTemp catches the failed removal and warns.
cleanupTemp(s) ==
  /\ pc[s] = "cleanup"
  /\ LET m == run[s].module IN
      \E removed \in BOOLEAN :
       /\ IF removed THEN faults' = faults
          ELSE ws[m].exists /\ Fault   \* removing a missing directory cannot fail
       /\ ws' = [ws EXCEPT ![m] = IF FinallyCleans(run[s].err) /\ removed THEN Absent ELSE @]
       /\ LET done == [run[s] EXCEPT !.log =
                         Append(@, Event("cleanup", IF removed THEN "ok" ELSE "swallowed"))]
              end == IF ~removed /\ StepThrows(variant, "cleanup")
                     THEN [threw |-> TRUE, error |-> "cleanup", result |-> NoResult]
                     ELSE Outcome(variant, done)
          IN
            IF req[s].kind = "upgrade"
            THEN /\ resp' = [resp EXCEPT ![s] =
                       IF end.threw THEN Throws(end.error) ELSE Returns(<<end.result>>)]
                 /\ pc' = [pc EXCEPT ![s] = "done"]
                 /\ run' = [run EXCEPT ![s] = done]
                 /\ UNCHANGED <<batch, runs>>
            ELSE IF end.threw
            THEN /\ resp' = [resp EXCEPT ![s] = Throws(end.error)]
                 /\ pc' = [pc EXCEPT ![s] = "done"]
                 /\ run' = [run EXCEPT ![s] = done]
                 /\ UNCHANGED <<batch, runs>>
            ELSE LET results == Append(batch[s].results, end.result)
                     rest == Tail(batch[s].todo)
                 IN IF rest = <<>>
                    THEN /\ resp' = [resp EXCEPT ![s] = Returns(results)]
                         /\ pc' = [pc EXCEPT ![s] = "done"]
                         /\ run' = [run EXCEPT ![s] = done]
                         /\ batch' = [batch EXCEPT ![s].todo = rest, ![s].results = results]
                         /\ runs' = runs
                    ELSE /\ resp' = resp
                         /\ pc' = [pc EXCEPT ![s] = "mkdir"]
                         /\ run' = [run EXCEPT ![s] = NewRun(Head(rest))]
                         /\ batch' = [batch EXCEPT ![s].todo = rest,
                                                   ![s].results = results,
                                                   ![s].attempted = Append(@, Head(rest))]
                         /\ runs' = runs + 1
  /\ previous' = [previous EXCEPT ![run[s].module] =
                [ ran |-> Succeeded(run[s]),
                  version |-> IF Succeeded(run[s]) THEN run[s].version ELSE NoText,
                  files |-> IF Succeeded(run[s]) THEN deploy[run[s].module].files ELSE {},
                  left |-> ws'[run[s].module].exists,
                  success |-> run[s].err = "none",
                  returned |-> IF run[s].err = "none" THEN run[s].version ELSE NoText,
                  manifest |-> run[s].err = "none" /\ run[s].manifest,
                  out |-> IF run[s].err = "none" THEN run[s].out ELSE "" ]]
  /\ UNCHANGED <<reference, variant, remote, deploy, backups, req, status>>

\* A request is taken by the lowest slot that serves none ("idle"; "done"
\* is a request whose response is not sent yet).
Receive(s) == pc[s] = "idle" /\ \A t \in Slots : t < s => pc[t] # "idle"

\* POST /upgrade {module}: upgradeModule(moduleName) up to its first await.
upgradeModule(s, moduleName) ==
  /\ Receive(s)
  /\ req' = [req EXCEPT ![s] = [NoRequest EXCEPT !.kind = "upgrade", !.module = moduleName]]
  /\ batch' = [batch EXCEPT ![s] = NoBatch]
  /\ status' = [status EXCEPT ![s] = NoStatus]
  /\ IF FindModule(moduleName) = 0
     THEN /\ resp' = [resp EXCEPT ![s] = Returns(<<NotConfigured(moduleName)>>)]
          /\ run' = [run EXCEPT ![s] = NoRun]
          /\ pc' = [pc EXCEPT ![s] = "done"]
          /\ runs' = runs
     ELSE /\ runs < MaxRuns
          /\ resp' = [resp EXCEPT ![s] = NoResponse]
          /\ run' = [run EXCEPT ![s] = NewRun(modules[FindModule(moduleName)].name)]
          /\ pc' = [pc EXCEPT ![s] = "mkdir"]
          /\ runs' = runs + 1
  /\ UNCHANGED <<reference, previous, variant, remote, ws, deploy, backups, faults>>

Range(seq) == { seq[i] : i \in 1..Len(seq) }

ModuleNameSeq == [i \in 1..Len(modules) |-> modules[i].name]

\* A selection that takes an empty moduleNames for an omitted one
\* (moduleNames?.length in place of moduleNames).
modulesToUpgradeOrAll(given, names) ==
  IF given /\ names # <<>>
  THEN SelectSeq(ModuleNameSeq, LAMBDA n : n \in Range(names))
  ELSE ModuleNameSeq

\* moduleNames ? this.modules.filter((m) => moduleNames.includes(m.name))
\*             : this.modules
modulesToUpgrade(given, names) ==
  IF given
  THEN SelectSeq(ModuleNameSeq, LAMBDA n : n \in Range(names))
  ELSE ModuleNameSeq

\* The moduleNames a caller may pass.
NameLists == UNION { [1..k -> Names] : k \in 0..MaxNames }

\* A batch whose loop calls upgradeModule without awaiting it: the list is
\* returned at once, before a pipeline has finished.
batchUpgradeDetached(s, given, names) ==
  /\ Receive(s)
  /\ LET todo == modulesToUpgrade(given, names) IN
       /\ runs = 0 \/ runs + Len(todo) <= MaxRuns   \* a first request is served whole
       /\ req' = [req EXCEPT ![s] = [NoRequest EXCEPT !.kind = "batch", !.given = given,
                                                      !.names = names]]
       /\ status' = [status EXCEPT ![s] = NoStatus]
       /\ resp' = [resp EXCEPT ![s] = Returns(<<>>)]
       /\ pc' = [pc EXCEPT ![s] = "done"]
       /\ IF todo = <<>>
          THEN /\ batch' = [batch EXCEPT ![s] = NoBatch]
               /\ run' = [run EXCEPT ![s] = NoRun]
               /\ runs' = runs
          ELSE /\ batch' = [batch EXCEPT ![s] =
                              [todo |-> todo, attempted |-> <<Head(todo)>>, results |-> <<>>]]
               /\ run' = [run EXCEPT ![s] = NewRun(Head(todo))]
               /\ runs' = runs + 1
  /\ UNCHANGED <<reference, previous, variant, remote, ws, deploy, backups, faults>>

\* POST /upgrade {modules} or {}: batchUpgrade(moduleNames) up to its first
\* await.
batchUpgrade(s, given, names) ==
  /\ Receive(s)
  /\ LET todo == modulesToUpgrade(given, names) IN
       /\ runs = 0 \/ runs + Len(todo) <= MaxRuns   \* a first request is served whole
       /\ req' = [req EXCEPT ![s] = [NoRequest EXCEPT !.kind = "batch", !.given = given,
                                                      !.names = names]]
       /\ status' = [status EXCEPT ![s] = NoStatus]
       /\ IF todo = <<>>
          THEN /\ resp' = [resp EXCEPT ![s] = Returns(<<>>)]
               /\ batch' = [batch EXCEPT ![s] = NoBatch]
               /\ run' = [run EXCEPT ![s] = NoRun]
               /\ pc' = [pc EXCEPT ![s] = "done"]
               /\ runs' = runs
          ELSE /\ resp' = [resp EXCEPT ![s] = NoResponse]
               /\ batch' = [batch EXCEPT ![s] =
                              [todo |-> todo, attempted |-> <<Head(todo)>>, results |-> <<>>]]
               /\ run' = [run EXCEPT ![s] = NewRun(Head(todo))]
               /\ pc' = [pc EXCEPT ![s] = "mkdir"]
               /\ runs' = runs + 1
  /\ UNCHANGED <<reference, previous, variant, remote, ws, deploy, backups, faults>>

\* ------------------------------------------------------------------ status

\* What the two ls-remote pipelines of getGitLatestVersion print, or that
\* exec rejects.
LsRemote(ok, tags, head) == [ok |-> ok, tags |-> tags, head |-> head]

\* The outcomes when the remote cannot be reached: the pipelines print
\* nothing (their exit status is that of tail and cut), or exec rejects.
Unreachable == { LsRemote(TRUE, NoText, NoText), LsRemote(FALSE, NoText, NoText) }

\* stdout.match(/refs\/tags\/(.+)/): the characters after the first
\* "refs/tags/" up to the end of that line; <<>> when nothing matches.
MatchTag(stdout) ==
  LET at == { i \in 1..Len(stdout) : stdout[i] = "refs/tags/" } IN
    IF at = {} THEN <<>>
    ELSE LET i == CHOOSE j \in at : \A k \in at : j <= k
             ends == { j \in (i+1)..Len(stdout) : stdout[j] = "\n" }
             last == IF ends = {} THEN Len(stdout)
                     ELSE (CHOOSE j \in ends : \A k \in ends : j <= k) - 1
         IN SubSeq(stdout, i + 1, last)

\* .replace(/\^\{\}$/, "")
StripPeel(str) ==
  IF str # <<>> /\ str[Len(str)] = "^{}" THEN SubSeq(str, 1, Len(str) - 1) ELSE str

\* .substring(0, 7)
Substring7(str) == SubSeq(str, 1, IF Len(str) < 7 THEN Len(str) ELSE 7)

getGitLatestVersion(ls) ==
  IF ~ls.ok THEN Unknown
  ELSE IF MatchTag(ls.tags) # <<>> THEN StripPeel(MatchTag(ls.tags))
  ELSE OrUnknown(Substring7(Trim(ls.head)))

\* getCurrentVersion(deployPath): [threw, value].  fs-extra: readJson of a
\* package.json that does not parse throws; node:fs: everything is caught.
getCurrentVersion(v, dir) ==
  IF pathExists(dir, "package.json")
  THEN LET pkg == TheFile(dir, "package.json") IN
         IF pkg.valid THEN [threw |-> FALSE, value |-> OrUnknown(pkg.data)]
         ELSE IF v = "nodeFs" THEN [threw |-> FALSE, value |-> Unknown]
         ELSE [threw |-> TRUE, value |-> NoText]
  ELSE [threw |-> FALSE, value |-> Unknown]

\* getLastModifiedTime(dir): the mtime, or null when stat fails.
getLastModifiedTime(dir) == IF dir.exists THEN "mtime" ELSE "null"

\* A comparison of versions that ignores a leading "v" and the case of that
\* letter; === compares the strings as they are.
Loose(str) == IF str # <<>> /\ Head(str) \in {"v", "V"} THEN Tail(str) ELSE str

SameVersionLoose(a, b) == Loose(a) = Loose(b)

\* currentVersion === latestVersion
SameVersion(a, b) == a = b

\* A comparison that takes an unresolved version for a difference.
StatusOfResolved(currentVersion, latestVersion) ==
  IF currentVersion # Unknown /\ latestVersion # Unknown
     /\ SameVersion(currentVersion, latestVersion)
  THEN "up-to-date" ELSE "outdated"

StatusOf(currentVersion, latestVersion) ==
  IF SameVersion(currentVersion, latestVersion) THEN "up-to-date" ELSE "outdated"

ModuleStatus(m, currentVersion, latestVersion, st, lastUpdated) ==
  [ name |-> m.name, type |-> m.type, currentVersion |-> currentVersion,
    latestVersion |-> latestVersion, status |-> st, lastUpdated |-> lastUpdated ]


\* GET /status: getModulesStatus() up to its first await.
getModulesStatus(s) ==
  /\ Receive(s)
  /\ req' = [req EXCEPT ![s] = [NoRequest EXCEPT !.kind = "status"]]
  /\ status' = [status EXCEPT ![s] = [idx |-> 1, list |-> <<>>]]
  /\ resp' = [resp EXCEPT ![s] = NoResponse]
  /\ pc' = [pc EXCEPT ![s] = "status"]
  /\ run' = [run EXCEPT ![s] = NoRun]
  /\ batch' = [batch EXCEPT ![s] = NoBatch]
  /\ UNCHANGED <<reference, previous, variant, remote, ws, deploy, backups, runs, faults>>

\* A loop iteration that would find the latest version by fetching the
\* repository into the module's workspace and describing it there, where
\* getGitLatestVersion only asks the remote.
statusEntryByClone(s) ==
  /\ pc[s] = "status"
  /\ LET m == modules[status[s].idx]
         latest == FromGit(Describe(TRUE, remote[m.name].describe))
         cur == getCurrentVersion("nodeFs", deploy[m.name]).value
         list == Append(status[s].list,
                        ModuleStatus(m, cur, latest, StatusOf(cur, latest),
                                     getLastModifiedTime(deploy[m.name])))
     IN /\ ws' = [ws EXCEPT ![m.name] =
                    Dir(CopyInto({File(".git")} \cup remote[m.name].files, @.files))]
        /\ status' = [status EXCEPT ![s] = [idx |-> @.idx + 1, list |-> list]]
        /\ IF status[s].idx = Len(modules)
           THEN /\ resp' = [resp EXCEPT ![s] = Reports(list)]
                /\ pc' = [pc EXCEPT ![s] = "done"]
           ELSE /\ resp' = resp
                /\ pc' = pc
  /\ UNCHANGED <<reference, previous, variant, remote, deploy, backups, req, run, batch, runs, faults>>

\* One iteration of getModulesStatus's loop, and the return after the last.
statusEntry(s) ==
  /\ pc[s] = "status"
  /\ LET m == modules[status[s].idx] IN
      \E ls \in {LsRemote(TRUE, remote[m.name].tags, CommitId \o <<"\n">>)} \cup Unreachable :
       LET cur == getCurrentVersion(variant, deploy[m.name])
           latest == getGitLatestVersion(ls)
           entry == ModuleStatus(m, cur.value, latest, StatusOf(cur.value, latest),
                                 getLastModifiedTime(deploy[m.name]))
           list == Append(status[s].list, entry)
       IN /\ IF ls \in Unreachable THEN Fault ELSE faults' = faults
          /\ IF cur.threw   \* catch (error) { console.error(...); throw error; }
             THEN /\ resp' = [resp EXCEPT ![s] = Throws("readJson")]
                  /\ pc' = [pc EXCEPT ![s] = "done"]
                  /\ status' = status
             ELSE /\ status' = [status EXCEPT ![s] = [idx |-> @.idx + 1, list |-> list]]
                  /\ IF status[s].idx = Len(modules)
                     THEN /\ resp' = [resp EXCEPT ![s] = Reports(list)]
                          /\ pc' = [pc EXCEPT ![s] = "done"]
                     ELSE /\ resp' = resp
                          /\ pc' = pc
  /\ UNCHANGED <<reference, previous, variant, remote, ws, deploy, backups, req, run, batch, runs>>

\* The controller's handler returns what the service returned, or the
\* rejection: the response is sent and the request's locals are gone.
respond(s) ==
  /\ pc[s] = "done"
  /\ pc' = [pc EXCEPT ![s] = "idle"]
  /\ req' = [req EXCEPT ![s] = NoRequest]
  /\ run' = [run EXCEPT ![s] = NoRun]
  /\ batch' = [batch EXCEPT ![s] = NoBatch]
  /\ status' = [status EXCEPT ![s] = NoStatus]
  /\ resp' = [resp EXCEPT ![s] = NoResponse]
  /\ UNCHANGED <<reference, previous, variant, remote, ws, deploy, backups, runs, faults>>

\* ------------------------------------------------------------ specification

\* No request is in flight.
Quiet == \A s \in Slots : pc[s] = "idle"

Request(s) ==
  \/ \E moduleName \in Names : upgradeModule(s, moduleName)
  \/ \E names \in NameLists : batchUpgrade(s, TRUE, names)
  \/ batchUpgrade(s, FALSE, <<>>)
  \/ getModulesStatus(s)

Step(s) ==
  \/ ensureDir(s)
  \/ gitCloneOrPull(s)
  \/ npmInstall(s)
  \/ buildProject(s)
  \/ backupCurrent(s)
  \/ deployBuild(s)
  \/ deployClear(s)
  \/ deployMkdir(s)
  \/ deployCopy(s)
  \/ resolveVersion(s)
  \/ cleanupTemp(s)
  \/ statusEntry(s)
  \/ respond(s)

\* Requests arrive one after the other: the controller's caller waits for
\* the response before it sends the next request.
Next ==
  \/ \E s \in Slots : Quiet /\ Request(s)
  \/ \E s \in Slots : Step(s)

Spec == Init /\ [][Next]_vars

\* ------------------------------------------------------ overlapping requests

\* POST /upgrade {module} arrives while another request may be in flight:
\* the controller awaits nothing before it calls the service, and nothing
\* in the service makes a request wait for another.
OverlapStep(s) ==
  \/ ensureDir(s)
  \/ gitCloneOrPull(s)
  \/ npmInstall(s)
  \/ buildProject(s)
  \/ backupCurrent(s)
  \/ deployBuild(s)
  \/ deployClear(s)
  \/ deployMkdir(s)
  \/ deployCopy(s)
  \/ resolveVersion(s)
  \/ cleanupTemp(s)
  \/ respond(s)

NextOverlap ==
  \/ \E s \in Slots : \E moduleName \in ModuleNames :
       runs < MaxOverlapRuns /\ upgradeModule(s, moduleName)
  \/ \E s \in Slots : OverlapStep(s)

SpecOverlap == Init /\ [][NextOverlap]_vars

\* ------------------------------------------------- runs whose awaits return

\* The requests that start pipeline runs, one after the other: upgrades of
\* single modules, after a batch or without one.
LiveStep(s) ==
  \/ ensureDir(s)
  \/ gitCloneOrPull(s)
  \/ npmInstall(s)
  \/ buildProject(s)
  \/ backupCurrent(s)
  \/ deployBuild(s)
  \/ deployClear(s)
  \/ deployMkdir(s)
  \/ deployCopy(s)
  \/ resolveVersion(s)
  \/ cleanupTemp(s)
  \/ respond(s)

LiveRequest(s) ==
  \/ \E moduleName \in ModuleNames : upgradeModule(s, moduleName)
  \/ runs = 0 /\ \E names \in NameLists : batchUpgrade(s, TRUE, names)
  \/ runs = 0 /\ batchUpgrade(s, FALSE, <<>>)

NextLive ==
  \/ \E s \in Slots : Quiet /\ LiveRequest(s)
  \/ \E s \in Slots : LiveStep(s)

\* Every command, filesystem call and response of a request in flight
\* eventually returns: each await of a request is eventually resumed.
SpecLive == Init /\ [][NextLive]_vars /\ \A s \in Slots : WF_vars(LiveStep(s))

\* ------------------------------------------- one request, both implementations

\* The steps of a finished run in which a command or filesystem call
\* failed, thrown or swallowed.  Output discovery fails by what it finds,
\* not by a failing call.
FailedCalls(log) ==
  { log[i].step : i \in { j \in 1..Len(log) :
                            /\ log[j].res \in {"threw", "swallowed"}
                            /\ log[j].step # "deploy" } }

\* The stages a run went through; clearing the target, creating it and
\* copying into it are parts of deployBuild.
StagesOf(log) ==
  { IF log[i].step \in {"clear", "target", "copy"} THEN "deploy" ELSE log[i].step :
      i \in 1..Len(log) }

\* The fs-extra implementation has served POST /upgrade {module} in slot s.
\* The same request is now given to the node:fs implementation, from the
\* filesystem the first run started in: no workspace, no backup, and the
\* deploy path as the first run found it.
upgradeModuleOnNodeFs(s) ==
  /\ pc[s] = "done"
  /\ variant = "fsExtra"
  /\ req[s].kind = "upgrade"
  /\ run[s].module # ""
  /\ ~reference.taken
  /\ LET m == run[s].module IN
       /\ reference' = [ taken |-> TRUE, module |-> m, failed |-> FailedCalls(run[s].log),
                         threw |-> resp[s].kind = "threw", stages |-> StagesOf(run[s].log),
                         deploy |-> deploy[m], backups |-> backups[m] ]
       /\ variant' = "nodeFs"
       /\ ws' = [n \in Names |-> Absent]
       /\ deploy' = [deploy EXCEPT ![m] = run[s].start]
       /\ backups' = [n \in ModuleNames |-> <<>>]
       /\ previous' = [n \in ModuleNames |-> NoOutcome]
       /\ faults' = 0
       /\ runs' = runs + 1
       /\ resp' = [resp EXCEPT ![s] = NoResponse]
       /\ run' = [run EXCEPT ![s] = [NoRun EXCEPT !.module = m, !.start = run[s].start]]
       /\ pc' = [pc EXCEPT ![s] = "mkdir"]
  /\ UNCHANGED <<remote, req, batch, status>>

PairStep(s) ==
  \/ ensureDir(s)
  \/ gitCloneOrPull(s)
  \/ npmInstall(s)
  \/ buildProject(s)
  \/ backupCurrent(s)
  \/ deployBuild(s)
  \/ deployClear(s)
  \/ deployMkdir(s)
  \/ deployCopy(s)
  \/ resolveVersion(s)
  \/ cleanupTemp(s)

NextPair ==
  \/ \E s \in Slots : \E moduleName \in ModuleNames :
       runs = 0 /\ variant = "fsExtra" /\ upgradeModule(s, moduleName)
  \/ \E s \in Slots : PairStep(s)
  \/ \E s \in Slots : upgradeModuleOnNodeFs(s)

SpecPair == Init /\ [][NextPair]_vars

\* ------------------------------------------------------------------ claims

\* The request of slot s has its outcome and the response is not sent yet.
Finished(s) == pc[s] = "done"

\* The steps the log of slot s's run records, oldest first.
Log(s) == run[s].log

\* C1: upgradeModule for a name that no configured module carries does not
\* throw; it returns one result with success = FALSE that names the module
\* and says it is not configured.  No pipeline step runs for it: its log
\* stays empty, no workspace exists for the name, and the step that takes
\* the request leaves workspaces, deploy paths and backups as they were.
C1_UnknownModuleAnswered ==
  \A s \in Slots :
    (req[s].kind = "upgrade" /\ req[s].module \notin ModuleNames) =>
      /\ Finished(s)
      /\ resp[s].kind = "returned"
      /\ Len(resp[s].results) = 1
      /\ ~resp[s].results[1].success
      /\ resp[s].results[1].module = req[s].module
      /\ resp[s].results[1].message.kind = "notConfigured"
      /\ Log(s) = <<>>
      /\ run[s].module = ""
      /\ ~ws[req[s].module].exists

C1_UnknownModuleTouchesNothing ==
  (\E s \in Slots : req'[s].kind = "upgrade" /\ req'[s].module \notin ModuleNames)
    => fsVars' = fsVars

C1_UnknownModule ==
  []C1_UnknownModuleAnswered /\ [][C1_UnknownModuleTouchesNothing]_vars

\* An unknown name was answered after an earlier run had taken a backup and
\* deployed.
C1_Witness ==
  \E s \in Slots :
    /\ Finished(s)
    /\ req[s].kind = "upgrade"
    /\ req[s].module = UnknownName
    /\ ~resp[s].results[1].success
    /\ \E n \in ModuleNames : backups[n] # <<>>

\* C2: once an upgradeModule call has ended, by return or by throw, and the
\* removal in cleanupTemp did not itself fail, the workspace of the module
\* does not exist, whichever step of the pipeline failed.
C2_WorkspaceRemoved ==
  \A s \in Slots :
    (Finished(s) /\ run[s].module # "" /\ Log(s)[Len(Log(s))] = Event("cleanup", "ok"))
      => ~ws[run[s].module].exists

\* A run whose build failed, after the clone had filled the workspace, has
\* ended and the workspace is gone.
C2_Witness ==
  \E s \in Slots :
    /\ Finished(s)
    /\ run[s].err = "build"
    /\ \E i \in 1..Len(Log(s)) : Log(s)[i] = Event("fetch", "cloned")
    /\ Log(s)[Len(Log(s))] = Event("cleanup", "ok")
    /\ ~ws[run[s].module].exists

\* The configured names a batchUpgrade request selects, in configuration
\* order: those in moduleNames, or all of them when moduleNames is omitted.
Selected(s) ==
  SelectSeq(ModuleNameSeq, LAMBDA n : ~req[s].given \/ n \in Range(req[s].names))

\* C3: a batchUpgrade in which the pipeline of a selected module fails still
\* attempts every later selected module, and returns one outcome per
\* selected module.
C3_BatchSurvivesFailure ==
  \A s \in Slots :
    (Finished(s) /\ req[s].kind = "batch" /\ run[s].err # "none") =>
      /\ batch[s].attempted = Selected(s)
      /\ resp[s].kind = "returned"
      /\ Len(resp[s].results) = Len(Selected(s))

\* C4: batchUpgrade(names) runs the pipeline for exactly the configured
\* modules whose name is in names (for every configured module when names
\* is omitted), and the outcomes it returns are those modules' in
\* configuration order, whatever the order of names.
C4_BatchSelection ==
  \A s \in Slots :
    (Finished(s) /\ req[s].kind = "batch") =>
      /\ batch[s].attempted = Selected(s)
      /\ resp[s].kind = "returned" =>
           [i \in 1..Len(resp[s].results) |-> resp[s].results[i].module] = Selected(s)

\* C5: every upgradeModule call for a configured module gives its caller
\* exactly one result object; when a step of the pipeline failed, it is a
\* result with success = FALSE whose message describes the failure.
C5_AlwaysAResult ==
  \A s \in Slots :
    (Finished(s) /\ req[s].kind = "upgrade" /\ req[s].module \in ModuleNames) =>
      /\ resp[s].kind = "returned"
      /\ Len(resp[s].results) = 1
      /\ run[s].err # "none" =>
           /\ ~resp[s].results[1].success
           /\ resp[s].results[1].message.kind = "failed"

\* The steps of a run in their fixed order; clearing the target, creating
\* it and copying into it are parts of deploy.
FixedOrder == <<"mkdir", "fetch", "install", "build", "backup", "deploy", "version">>

Stage(step) == IF step \in {"clear", "target", "copy"} THEN "deploy" ELSE step

Position(stage) == CHOOSE i \in 1..Len(FixedOrder) : FixedOrder[i] = stage

\* A step whose commands and filesystem calls all succeeded (or that had
\* nothing to do), and a step in which one of them failed.
StepSucceeded(e) == e.res \notin {"threw", "swallowed"}
StepFailed(e) == e.res \in {"threw", "swallowed"} /\ e.step \notin {"version", "cleanup"}

\* C6: within a run the steps start in the fixed order fetch, install,
\* build, backup, deploy, resolve-version, one at a time: a step starts only
\* after the step before it has completed successfully, and deploy starts
\* only after build and backup have both completed.
C6_FixedOrder ==
  \A s \in Slots : \A i \in 2..Len(Log(s)) :
    Log(s)[i].step # "cleanup" =>
      /\ StepSucceeded(Log(s)[i-1])
      /\ \/ Stage(Log(s)[i].step) = "deploy" /\ Stage(Log(s)[i-1].step) = "deploy"
         \/ Position(Stage(Log(s)[i].step)) = Position(Stage(Log(s)[i-1].step)) + 1
      /\ Log(s)[i].step = "deploy" =>
           /\ \E j \in 1..(i-1) : Log(s)[j].step = "build" /\ StepSucceeded(Log(s)[j])
           /\ \E j \in 1..(i-1) : Log(s)[j].step = "backup" /\ StepSucceeded(Log(s)[j])

\* C7: when a step of a run fails, the run fails at once: no later step of
\* the pipeline starts (a failed fetch, install or build is never followed
\* by backup or deploy), and cleanup still runs.
C7_FailureEndsRun ==
  \A s \in Slots : \A i \in 1..Len(Log(s)) :
    StepFailed(Log(s)[i]) =>
      /\ run[s].err = Log(s)[i].step
      /\ IF i = Len(Log(s)) THEN pc[s] = "cleanup"
         ELSE /\ i + 1 = Len(Log(s))
              /\ Log(s)[i+1].step = "cleanup"

\* A step takes files away from the deploy path of module m, or the path
\* itself.
LosesFiles(m) ==
  /\ deploy[m].exists
  /\ \/ ~deploy'[m].exists
     \/ \E f \in deploy[m].files : f \notin deploy'[m].files

\* A run for module m is in progress whose backup step copied the deploy
\* path completely.
BackedUp(m) ==
  \E s \in Slots : run[s].module = m /\ Event("backup", "ok") \in Range(Log(s))

\* C8: a run never deploys over an existing deploy path without a safety
\* copy: when the backup copy fails, the run fails and deploy never starts,
\* and the contents of an existing deploy path are removed only after a
\* backup copy has completed in the same run.
C8_FailedBackupEndsRun ==
  \A s \in Slots : \A i \in 1..Len(Log(s)) :
    (Log(s)[i].step = "backup" /\ StepFailed(Log(s)[i])) =>
      /\ run[s].err = "backup"
      /\ \A j \in (i+1)..Len(Log(s)) : Stage(Log(s)[j].step) # "deploy"

C8_RemovalNeedsBackup == \A m \in ModuleNames : LosesFiles(m) => BackedUp(m)

C8_BackupBeforeRemoval ==
  []C8_FailedBackupEndsRun /\ [][C8_RemovalNeedsBackup]_vars

\* C9: when the workspace holds a dependency manifest and the install
\* command exits non-zero, the install step fails and with it the run:
\* build, backup and deploy are not executed and the caller gets a failure.
C9_InstallFailureFailsRun ==
  \A s \in Slots : \A i \in 1..Len(Log(s)) :
    (Log(s)[i].step = "install" /\ StepFailed(Log(s)[i])) =>
      /\ run[s].err = "install"
      /\ \A j \in (i+1)..Len(Log(s)) : Log(s)[j].step \notin {"build", "backup", "deploy"}
      /\ Finished(s) =>
           \/ resp[s].kind = "threw"
           \/ resp[s].kind = "returned" /\ \E k \in 1..Len(resp[s].results) :
                                            ~resp[s].results[k].success

\* The entries getModulesStatus has built, and those it has returned.
StatusEntries == UNION { Range(status[s].list) \cup Range(resp[s].list) : s \in Slots }

\* C10: the status of an entry of getModulesStatus is "up-to-date" exactly
\* when its currentVersion and latestVersion are the same string, character
\* for character, and "outdated" otherwise; versions that differ only by
\* the case of a letter or by a "v" prefix give "outdated".
C10_StatusIsStringEquality ==
  \A e \in StatusEntries :
    /\ e.status \in {"up-to-date", "outdated"}
    /\ e.status = "up-to-date" <=> e.currentVersion = e.latestVersion

\* A response lists an entry whose versions are "1.0.0" and "v1.0.0" and
\* one whose versions are the same, the first outdated and the second
\* up-to-date; and the case of "V1.0.0" against "v1.0.0".
C10_Witness ==
  \E s \in Slots :
    /\ Finished(s)
    /\ \E e \in Range(resp[s].list) :
         /\ e.currentVersion # e.latestVersion
         /\ Loose(e.currentVersion) = Loose(e.latestVersion)
         /\ e.status = "outdated"
    /\ \E e \in Range(resp[s].list) :
         /\ e.currentVersion = e.latestVersion
         /\ e.status = "up-to-date"

\* C11: getModulesStatus returns exactly one entry per configured module,
\* in configuration order; no module's entry is left out, also when the
\* resolution of a version of that module failed.
C11_OneEntryPerModule ==
  \A s \in Slots :
    (Finished(s) /\ req[s].kind = "status") =>
      /\ resp[s].kind = "status"
      /\ [i \in 1..Len(resp[s].list) |-> resp[s].list[i].name] = ModuleNameSeq

\* The deployed package.json of module n cannot be read as JSON.
UnreadableManifest(n) ==
  pathExists(deploy[n], "package.json") /\ ~TheFile(deploy[n], "package.json").valid

\* C12: a version that cannot be resolved for one module does not abort
\* getModulesStatus: the call returns, the entry of that module carries
\* "unknown", and the entries of the other modules carry their versions.
C12_ResolutionFailureIsLocal ==
  \A s \in Slots :
    (Finished(s) /\ req[s].kind = "status") =>
      /\ resp[s].kind # "threw"
      /\ \A i \in 1..Len(resp[s].list) :
           LET e == resp[s].list[i] IN
             IF UnreadableManifest(e.name)
             THEN e.currentVersion = Unknown
             ELSE e.currentVersion = getCurrentVersion(variant, deploy[e.name]).value

\* Slot s takes a step of a getModulesStatus call: the call starts, or one
\* iteration of its loop runs.
StatusStep(s) ==
  /\ pc[s] = "status" \/ pc'[s] = "status"
  /\ pc'[s] # pc[s] \/ status'[s] # status[s]

\* C13: getModulesStatus is read-only: no step of a call, in whatever state
\* it is made, changes a workspace, a deploy path or the backups, and none
\* starts a pipeline run.
C13_StatusStepReadsOnly ==
  \A s \in Slots :
    StatusStep(s) =>
      /\ fsVars' = fsVars
      /\ runs' = runs
      /\ run'[s] = NoRun
      /\ pc'[s] \in {"status", "done"}

C13_StatusReadOnly == [][C13_StatusStepReadsOnly]_vars

\* A status call has returned its report in a state where an earlier run
\* had taken a backup and left its workspace behind.
C13_Witness ==
  \E s \in Slots :
    /\ Finished(s)
    /\ req[s].kind = "status"
    /\ resp[s].kind = "status"
    /\ Len(resp[s].list) = Len(modules)
    /\ \E n \in ModuleNames : backups[n] # <<>> /\ ws[n].exists

\* The run of slot s has just completed its deploy step successfully: output
\* discovery, clearing the target and the copy into it all succeeded, and
\* version resolution is next.
Deployed(s) ==
  /\ pc[s] = "version"
  /\ Log(s)[Len(Log(s))] = Event("copy", "ok")
  /\ \A i \in 1..Len(Log(s)) : Stage(Log(s)[i].step) = "deploy" => StepSucceeded(Log(s)[i])

\* C14: after a deploy step that completed successfully, the deploy path
\* holds exactly the entries of the discovered output directory: every file
\* of the output, and none of the files the deploy path held before,
\* whether or not the deploy path existed.
C14_DeployIsExactlyOutput ==
  \A s \in Slots :
    Deployed(s) =>
      /\ deploy[run[s].module].exists
      /\ deploy[run[s].module].files = OutputFiles(ws[run[s].module], run[s].out)

\* A deploy has completed over a deploy path that held a file the output
\* does not hold (the backup of this run has it), and the file is gone.
C14_Witness ==
  \E s \in Slots :
    /\ Deployed(s)
    /\ Event("backup", "ok") \in Range(Log(s))
    /\ LET m == run[s].module
           before == backups[m][Len(backups[m])]
       IN /\ before \ OutputFiles(ws[m], run[s].out) # {}
          /\ deploy[m].files = OutputFiles(ws[m], run[s].out)
          /\ deploy[m].files # {}

\* Output discovery has run in the run of slot s and the workspace is still
\* the one it probed (cleanupTemp has not run).
Discovered(s) ==
  /\ pc[s] \in {"clear", "target", "copy", "version", "cleanup"}
  /\ \E i \in 1..Len(Log(s)) : Log(s)[i].step = "deploy"

IsFrontend(n) == TypeOf(n) \in {"frontend", "microfrontend"}

\* C15: for a frontend or microfrontend module the output directory is the
\* first of dist, build, out, public, in that order, that exists in the
\* workspace; when none of the four exists the deploy step fails (output
\* not found).
C15_FrontendOutput ==
  \A s \in Slots :
    (Discovered(s) /\ IsFrontend(run[s].module)) =>
      LET dir == ws[run[s].module]
          existing == { i \in 1..Len(possibleDirs) : pathExists(dir, possibleDirs[i]) }
      IN IF existing = {}
         THEN /\ Event("deploy", "threw") \in Range(Log(s))
              /\ run[s].err = "deploy"
              /\ pc[s] = "cleanup"
         ELSE /\ Event("deploy", "ok") \in Range(Log(s))
              /\ \E i \in existing :
                   /\ run[s].out = possibleDirs[i]
                   /\ \A j \in existing : i <= j

\* The build wrote out and public but neither dist nor build, and out was
\* discovered.
C15_Witness ==
  \E s \in Slots :
    /\ Discovered(s)
    /\ IsFrontend(run[s].module)
    /\ run[s].out = "out"
    /\ pathExists(ws[run[s].module], "public")
    /\ ~pathExists(ws[run[s].module], "dist")

\* C16: for a backend module output discovery never fails: the output is
\* the dist directory of the workspace when it exists and the workspace
\* root otherwise; the output-not-found error cannot occur.
C16_BackendOutput ==
  \A s \in Slots :
    (run[s].module # "" /\ ~IsFrontend(run[s].module)) =>
      /\ Event("deploy", "threw") \notin Range(Log(s))
      /\ Discovered(s) =>
           /\ Event("deploy", "ok") \in Range(Log(s))
           /\ run[s].out = IF pathExists(ws[run[s].module], "dist") THEN "dist" ELSE "."

\* A backend whose build writes no dist directory (nor any of the other
\* three) has the workspace root as its output.
C16_Witness ==
  \E s \in Slots :
    /\ Discovered(s)
    /\ run[s].module # ""
    /\ ~IsFrontend(run[s].module)
    /\ \A d \in OutDirs : ~pathExists(ws[run[s].module], d)
    /\ run[s].out = "."

\* Slot s takes its backup step.
BackupStep(s) == pc[s] = "backup" /\ pc'[s] # "backup"

\* C17: the backup step leaves every deploy path as it was.  When the
\* deploy path exists, a successful backup adds one directory to the
\* module's backups, holding every file the deploy path held when the step
\* began; when it does not exist, the step succeeds and creates nothing.
C17_BackupStepFrame ==
  \A s \in Slots :
    BackupStep(s) =>
      LET m == run[s].module
          last == run'[s].log[Len(run'[s].log)]
      IN /\ deploy' = deploy
         /\ last.step = "backup"
         /\ \A n \in ModuleNames : n # m => backups'[n] = backups[n]
         /\ IF deploy[m].exists
            THEN last = Event("backup", "ok") =>
                   backups'[m] = Append(backups[m], deploy[m].files)
            ELSE /\ last = Event("backup", "skipped")
                 /\ backups' = backups
                 /\ pc'[s] = "deploy"

C17_BackupLeavesDeployPath == [][C17_BackupStepFrame]_vars

\* A backup has just succeeded for a deploy path that holds files: the
\* newest backup of the module holds them all and the deploy path still
\* does.
C17_Witness ==
  \E s \in Slots :
    /\ pc[s] = "deploy"
    /\ Log(s)[Len(Log(s))] = Event("backup", "ok")
    /\ deploy[run[s].module].exists
    /\ deploy[run[s].module].files # {}
    /\ backups[run[s].module][Len(backups[run[s].module])] = deploy[run[s].module].files

\* C18: two runs of upgradeModule for the same module, one right after the
\* other, with the repository and its build output unchanged and both
\* succeeding, resolve the same version and leave the deploy path with the
\* same contents.
C18_SecondRunSameResult ==
  \A s \in Slots :
    (pc[s] = "cleanup" /\ Succeeded(run[s]) /\ previous[run[s].module].ran) =>
      /\ run[s].version = previous[run[s].module].version
      /\ deploy[run[s].module].files = previous[run[s].module].files

\* The second of two successful runs of a module has deployed and resolved
\* its version; the first run had replaced a deploy path that held other
\* files.
C18_Witness ==
  \E s \in Slots :
    /\ pc[s] = "cleanup"
    /\ Succeeded(run[s])
    /\ previous[run[s].module].ran
    /\ run[s].version = previous[run[s].module].version
    /\ deploy[run[s].module].files = previous[run[s].module].files
    /\ deploy[run[s].module].files # {}
    /\ Len(backups[run[s].module]) = 2
    /\ backups[run[s].module][1] # backups[run[s].module][2]

\* The workspace of module n once a run alone has cloned, installed and
\* built in it, and the files of the output directory discovered there.
BuiltWorkspace(n) ==
  LET tree == {File(".git")} \cup remote[n].files
      installed == IF \E f \in tree : f.name = "package.json"
                   THEN CopyInto({File("node_modules")}, tree) ELSE tree
  IN Dir(CopyInto({File(d) : d \in remote[n].outs}, installed))

SingleRunOutput(n) ==
  OutputFiles(BuiltWorkspace(n), buildOutput(TypeOf(n), BuiltWorkspace(n)))

\* The run of slot s has begun to replace the deploy path.
Swapping(s) == \E i \in 1..Len(Log(s)) : Log(s)[i].step = "clear"

\* C19: two overlapping runs of upgradeModule for the same module never
\* leave the deploy path with a mix of what separate runs wrote: under every
\* interleaving of their steps, once both have finished (and no command
\* failed by itself) the deploy path holds exactly the output of one run.
C19_OverlapLeavesOneOutput ==
  \A s, t \in Slots :
    ( /\ s # t
      /\ Finished(s) /\ Finished(t)
      /\ run[s].module # "" /\ run[s].module = run[t].module
      /\ Swapping(s) \/ Swapping(t)
      /\ faults = 0 ) =>
      /\ deploy[run[s].module].exists
      /\ deploy[run[s].module].files = SingleRunOutput(run[s].module)

\* The steps between the end of a run's fetch and the end of its version
\* resolution.
OwnsWorkspace(s) ==
  pc[s] \in {"install", "build", "backup", "deploy", "clear", "target", "copy", "version"}

\* C20: a workspace belongs to one invocation: while a run of module M is
\* between its fetch and its version resolution, no step of another
\* upgradeModule(M) invocation creates, changes or removes M's workspace,
\* under every interleaving of two overlapping runs.
C20_NoForeignWorkspaceStep ==
  \A s, t \in Slots :
    ( /\ s # t
      /\ run[s].module # "" /\ run[s].module = run[t].module
      /\ OwnsWorkspace(s)
      /\ pc'[t] # pc[t] ) =>
      ws'[run[s].module] = ws[run[s].module]

C20_WorkspaceOwnedByOneRun == [][C20_NoForeignWorkspaceStep]_vars

\* Version resolution has just run in the run of slot s; the workspace is
\* the one it read.
Resolved(s) ==
  /\ pc[s] = "cleanup"
  /\ Log(s) # <<>>
  /\ Log(s)[Len(Log(s))].step = "version"

\* The workspace of module n holds a package.json that parses and has a
\* version field.
ReadableVersion(n) ==
  /\ pathExists(ws[n], "package.json")
  /\ TheFile(ws[n], "package.json").valid
  /\ TheFile(ws[n], "package.json").data # NoText

DeployedVersion(n) ==
  IF /\ pathExists(deploy[n], "package.json")
     /\ TheFile(deploy[n], "package.json").valid
     /\ TheFile(deploy[n], "package.json").data # NoText
  THEN TheFile(deploy[n], "package.json").data
  ELSE Unknown

\* C22: getCurrentVersion returns the version field of the package.json
\* deployed at deployPath, and "unknown", without throwing, when that file
\* is absent or cannot be read (it does not parse): no status call ends with
\* its rejection, and every entry built carries that value.
C22_DeployedVersionOrUnknown ==
  \A s \in Slots :
    req[s].kind = "status" =>
      /\ resp[s].error # "readJson"
      /\ \A e \in Range(status[s].list) \cup Range(resp[s].list) :
           e.currentVersion = DeployedVersion(e.name)

\* The removal of the workspace failed in the run slot s has just ended.
CleanupFailed(s) ==
  /\ Finished(s)
  /\ run[s].module # ""
  /\ Log(s)[Len(Log(s))] = Event("cleanup", "swallowed")

\* C23: a removal of the workspace that fails in cleanup does not change
\* what the run gives its caller: when the try block returned, the caller
\* gets the success = TRUE result with the resolved version; when a step
\* threw, the caller gets that step's failure, never the cleanup's.
C23_CleanupKeepsVerdict ==
  \A s \in Slots :
    CleanupFailed(s) =>
      /\ resp[s].error # "cleanup"
      /\ IF run[s].err = "none"
         THEN /\ resp[s].kind = "returned"
              /\ LET r == resp[s].results[Len(resp[s].results)] IN
                   /\ r.success
                   /\ r.module = run[s].module
                   /\ r.version = run[s].version
         ELSE \/ resp[s].kind = "threw" /\ resp[s].error = run[s].err
              \/ /\ resp[s].kind = "returned"
                 /\ LET r == resp[s].results[Len(resp[s].results)] IN
                      ~r.success /\ r.message.error = run[s].err

\* A run whose steps all succeeded returned success although the removal
\* of its workspace failed, and the workspace is still there.
C23_Witness ==
  \E s \in Slots :
    /\ CleanupFailed(s)
    /\ run[s].err = "none"
    /\ resp[s].kind = "returned"
    /\ resp[s].results[Len(resp[s].results)].success
    /\ ws[run[s].module].exists

\* The results upgradeModule has returned: those in a response and those a
\* batch has collected.
ReturnedResults == UNION { Range(resp[s].results) \cup Range(batch[s].results) : s \in Slots }

\* C24: a result of upgradeModule carries a version exactly when its
\* success is TRUE.  A successful run returns success = TRUE, the version
\* getVersion resolved in the workspace, and a message that quotes that
\* version; a result with success = FALSE has no version.
C24_VersionIffSuccess ==
  /\ \A r \in ReturnedResults :
       /\ r.hasVersion <=> r.success
       /\ r.success => /\ r.version # NoText
                       /\ r.message.kind = "upgraded"
                       /\ r.message.version = r.version
       /\ ~r.success => r.version = NoText
  /\ \A s \in Slots :
       (Finished(s) /\ run[s].module # "" /\ run[s].err = "none") =>
         /\ resp[s].kind = "returned"
         /\ LET r == resp[s].results[Len(resp[s].results)] IN
              /\ r.success
              /\ r.module = run[s].module
              /\ r.hasVersion
              /\ r.version = run[s].version

\* A run has returned a successful result that carries the version it
\* resolved, "unknown" included, and quotes it in its message.
C24_Witness ==
  \E s \in Slots :
    /\ Finished(s)
    /\ resp[s].kind = "returned"
    /\ \E i \in 1..Len(resp[s].results) :
         /\ resp[s].results[i].success
         /\ resp[s].results[i].hasVersion
         /\ resp[s].results[i].version = run[s].version
         /\ resp[s].results[i].message.version = run[s].version

\* A run of slot s is at one of the awaits of upgradeModule's try block.
InTry(s) ==
  pc[s] \in {"mkdir", "fetch", "install", "build", "backup", "deploy", "clear", "target",
             "copy", "version"}

\* The run of slot s has ended: cleanupTemp has run, after a try block that
\* returned (Done) or threw (Failed), and the call has settled.
Ended(s) ==
  /\ pc[s] = "done"
  /\ Log(s) # <<>>
  /\ Log(s)[Len(Log(s))].step = "cleanup"

\* C25: when every command and filesystem call eventually returns, a run
\* that has started reaches cleanupTemp, whether its steps return or one
\* throws, and after cleanupTemp the call settles (or a batch goes on to its
\* next module); a request that started a run ends with the run ended.  No
\* run waits or loops forever.
C25_RunTerminates ==
  \A s \in Slots :
    /\ InTry(s) ~> pc[s] = "cleanup"
    /\ pc[s] = "cleanup" ~> (Ended(s) \/ pc[s] = "mkdir")
    /\ InTry(s) ~> Ended(s)

\* A run has ended after its fetch threw, with cleanupTemp run; the runs
\* whose steps all return end the same way.
C25_Witness ==
  \E s \in Slots :
    /\ Ended(s)
    /\ run[s].err = "fetch"
    /\ resp[s].kind = "threw"
    /\ Len(Log(s)) = 3

\* Slot s serves a batchUpgrade call that has started a pipeline.
InBatch(s) == req[s].kind = "batch" /\ batch[s].attempted # <<>>

\* C26: batchUpgrade runs its modules one at a time.  While the pipeline of
\* a module runs, every module attempted before it has its outcome in the
\* list and nothing is returned yet; the list is returned only when the
\* last selected module's run has ended with its cleanup.
C26_OneModuleAtATime ==
  \A s \in Slots :
    InBatch(s) =>
      LET n == Len(batch[s].attempted) IN
        /\ run[s].module = batch[s].attempted[n]
        /\ (InTry(s) \/ pc[s] = "cleanup") =>
             /\ Len(batch[s].results) = n - 1
             /\ \A i \in 1..(n-1) : batch[s].results[i].module = batch[s].attempted[i]
             /\ resp[s] = NoResponse
        /\ (Finished(s) /\ resp[s].kind = "returned") =>
             /\ resp[s].results = batch[s].results
             /\ Len(batch[s].results) = n
             /\ batch[s].todo = <<>>
             /\ Log(s)[Len(Log(s))].step = "cleanup"

\* C26, in steps: the pipeline of a later module of a batch starts in the
\* step in which the cleanup of the module before it ends, and in no other.
C26_NextStartsAtCleanup ==
  \A s \in Slots :
    (InBatch(s) /\ Len(batch'[s].attempted) > Len(batch[s].attempted)) =>
      /\ pc[s] = "cleanup"
      /\ pc'[s] = "mkdir"
      /\ Len(batch'[s].results) = Len(batch[s].attempted)
      /\ batch'[s].results[Len(batch'[s].results)].module = run[s].module
      /\ run'[s].log = <<>>

C26_BatchIsSequential == []C26_OneModuleAtATime /\ [][C26_NextStartsAtCleanup]_vars

\* A batch of two modules has returned both outcomes, the second run having
\* started after the first had removed its workspace.
C26_Witness ==
  \E s \in Slots :
    /\ Finished(s)
    /\ req[s].kind = "batch"
    /\ resp[s].kind = "returned"
    /\ Len(resp[s].results) = 2
    /\ resp[s].results[1].module # resp[s].results[2].module
    /\ \A i \in 1..2 : ~ws[resp[s].results[i].module].exists

\* Slot s takes its fetch step.
FetchStep(s) == pc[s] = "fetch" /\ pc'[s] # "fetch"

\* C27, the step: a fetch that succeeds clones when the workspace holds no
\* .git and updates in place when it holds one.
C27_FetchStepChoosesByGitDir ==
  \A s \in Slots :
    FetchStep(s) =>
      LET m == run[s].module
          done == run'[s].log[Len(run'[s].log)]
      IN /\ done.step = "fetch"
         /\ done.res \in {"cloned", "pulled", "threw"}
         /\ done.res = "cloned" => ~pathExists(ws[m], ".git")
         /\ done.res = "pulled" => pathExists(ws[m], ".git")
         /\ done.res # "threw" => pathExists(ws'[m], ".git")

\* C27, across runs: a run that follows a run of the same module whose
\* cleanup removed the workspace (or that is the module's first) never
\* updates in place; a run that does follows a run whose cleanup failed.
C27_PullOnlyAfterFailedCleanup ==
  \A s \in Slots :
    (InTry(s) \/ pc[s] = "cleanup") =>
      \A i \in 1..Len(Log(s)) :
        Log(s)[i].step = "fetch" =>
          /\ ~previous[run[s].module].left => Log(s)[i].res \in {"cloned", "threw"}
          /\ Log(s)[i].res = "pulled" => previous[run[s].module].left

C27_CloneOrUpdate ==
  []C27_PullOnlyAfterFailedCleanup /\ [][C27_FetchStepChoosesByGitDir]_vars

\* A run has updated in place the workspace that the module's run before
\* it had cloned and failed to remove.
C27_Witness ==
  \E s \in Slots :
    /\ InTry(s)
    /\ Event("fetch", "pulled") \in Range(Log(s))
    /\ previous[run[s].module].left

\* Slot s takes its install step.
InstallStep(s) == pc[s] = "install" /\ pc'[s] # "install"

\* C28: when the workspace root holds no package.json the install step is
\* a no-op that succeeds: no command runs (the workspace stays as it is and
\* nothing can fail), the step is recorded as skipped, and build is next.
C28_InstallSkipsWithoutManifest ==
  \A s \in Slots :
    (InstallStep(s) /\ ~pathExists(ws[run[s].module], "package.json")) =>
      /\ ws' = ws
      /\ faults' = faults
      /\ run'[s].log = Append(run[s].log, Event("install", "skipped"))
      /\ run'[s].err = "none"
      /\ pc'[s] = "build"

C28_InstallNoOp == [][C28_InstallSkipsWithoutManifest]_vars

\* The install step has been skipped in a cloned workspace without
\* package.json, and build is next.
C28_Witness ==
  \E s \in Slots :
    /\ pc[s] = "build"
    /\ Log(s)[Len(Log(s))] = Event("install", "skipped")
    /\ pathExists(ws[run[s].module], ".git")
    /\ ~pathExists(ws[run[s].module], "package.json")
    /\ ~pathExists(ws[run[s].module], "node_modules")

\* The steps of a run that precede the removal of the deploy path's
\* contents: output discovery ("deploy") is the last of them.
BeforeSwap == {"mkdir", "fetch", "install", "build", "backup", "deploy"}

\* C29: a run that fails before deployBuild starts to clear the deploy path
\* (in creating the workspace, fetch, install, build, backup or output
\* discovery) leaves the deploy path exactly as the run found it, up to and
\* after its cleanup.
C29_EarlyFailureKeepsDeployPath ==
  \A s \in Slots :
    (run[s].module # "" /\ run[s].err \in BeforeSwap) =>
      /\ deploy[run[s].module] = run[s].start
      /\ \A i \in 1..Len(Log(s)) : Log(s)[i].step \notin {"clear", "target", "copy"}

\* A run whose backup copy failed has ended: the deploy path still holds
\* the files it held when the run began.
C29_Witness ==
  \E s \in Slots :
    /\ Finished(s)
    /\ run[s].err = "backup"
    /\ deploy[run[s].module] = run[s].start
    /\ deploy[run[s].module].files # {}

\* The node:fs implementation has finished, in slot s, the request the
\* fs-extra implementation had served, and the same calls failed in both.
Compared(s) ==
  /\ Finished(s)
  /\ variant = "nodeFs"
  /\ reference.taken
  /\ reference.module = run[s].module
  /\ FailedCalls(Log(s)) = reference.failed

\* C30: the two implementations of upgradeModule are equivalent: for the
\* same module, the same initial filesystem and the same calls failing, both
\* return or both throw, both go through the same stages, and (when the
\* failing call is not one that leaves a copy or a removal half done) both
\* leave the same deploy path and the same backups.
C30_ImplementationsAgree ==
  \A s \in Slots :
    Compared(s) =>
      /\ (resp[s].kind = "threw") = reference.threw
      /\ StagesOf(Log(s)) = reference.stages
      /\ reference.failed \cap {"backup", "clear", "target", "copy"} = {} =>
           /\ deploy[run[s].module] = reference.deploy
           /\ backups[run[s].module] = reference.backups

\* Slot s serves batchUpgrade([]): a name list was passed and it is empty.
EmptyBatch(s) == req[s].kind = "batch" /\ req[s].given /\ req[s].names = <<>>

\* Slot s serves batchUpgrade(): no name list was passed.
WholeBatch(s) == req[s].kind = "batch" /\ ~req[s].given

\* C31: batchUpgrade with an empty name list runs no pipeline and returns
\* an empty list at once; batchUpgrade without a name list starts with the
\* first configured module and has every configured module to go through,
\* and a name list that selects them all names them all.
C31_EmptyListOmittedList ==
  \A s \in Slots :
    /\ EmptyBatch(s) =>
         /\ Finished(s)
         /\ resp[s] = Returns(<<>>)
         /\ batch[s] = NoBatch
         /\ run[s] = NoRun
    /\ WholeBatch(s) =>
         /\ batch[s].attempted # <<>>
         /\ IF batch[s].todo = <<>>
            THEN batch[s].attempted = ModuleNameSeq
            ELSE batch[s].attempted \o Tail(batch[s].todo) = ModuleNameSeq
    /\ (req[s].kind = "batch" /\ req[s].given /\ Selected(s) = ModuleNameSeq) =>
         ModuleNames \subseteq Range(req[s].names)

\* C31, the step: taking batchUpgrade([]) changes no workspace, deploy path
\* or backup and starts no run.
C31_EmptyBatchStartsNothing ==
  (\E s \in Slots : req'[s] # req[s] /\ req'[s].kind = "batch" /\ req'[s].given
                    /\ req'[s].names = <<>>)
    => (fsVars' = fsVars /\ runs' = runs)

C31_EmptyBatchSelectsNone == []C31_EmptyListOmittedList /\ [][C31_EmptyBatchStartsNothing]_vars

\* batchUpgrade([]) has returned its empty list, after an earlier request
\* had run a pipeline and left a workspace behind, which is still there.
C31_Witness ==
  \E s \in Slots :
    /\ EmptyBatch(s)
    /\ Finished(s)
    /\ resp[s] = Returns(<<>>)
    /\ runs > 0
    /\ \E n \in ModuleNames : ws[n].exists

\* The configured modules whose name occurs in the name list slot s's
\* batchUpgrade call was given.
NamedModules(s) == { n \in ModuleNames : n \in Range(req[s].names) }

\* Slot s's batchUpgrade(names) call has ended.
BatchEnded(s) == Finished(s) /\ req[s].kind = "batch" /\ req[s].given

\* What holds of every batchUpgrade(names) call, ended or not: pipelines
\* run only for configured modules that names lists, no module twice, and
\* every outcome belongs to a module whose pipeline ran.
C32_SelectionOnly ==
  \A s \in Slots :
    (req[s].kind = "batch" /\ req[s].given) =>
      /\ Range(batch[s].attempted) \subseteq NamedModules(s)
      /\ \A i, j \in 1..Len(batch[s].attempted) :
           batch[s].attempted[i] = batch[s].attempted[j] => i = j
      /\ \A i \in 1..Len(batch[s].results) :
           batch[s].results[i].module = batch[s].attempted[i]
      /\ UnknownName \notin Range(batch[s].attempted)

\* C32: in batchUpgrade(names) a name no configured module carries gives no
\* outcome and no run, a name listed twice gives one run, and the number of
\* pipeline runs is the number of configured modules whose name occurs in
\* names.
C32_OneRunPerNamedModule ==
  /\ C32_SelectionOnly
  /\ \A s \in Slots :
       BatchEnded(s) => Len(batch[s].attempted) = Cardinality(NamedModules(s))

\* A batchUpgrade(names) call that returned its outcomes ran one pipeline
\* for each named configured module and returned one outcome for each.
C32_ReturnedBatchCount ==
  \A s \in Slots :
    (BatchEnded(s) /\ resp[s].kind = "returned") =>
      /\ Len(batch[s].attempted) = Cardinality(NamedModules(s))
      /\ Len(resp[s].results) = Cardinality(NamedModules(s))

\* The latest run of module n returned success=true with a version that
\* getVersion read from the package.json of the workspace.
UpgradedFromManifest(n) == previous[n].success /\ previous[n].manifest

\* The entries for module n that a getModulesStatus call has computed.
EntriesOf(n) == { e \in StatusEntries : e.name = n }

UnresolvedEntryStep(s) ==
  /\ pc[s] = "status"
  /\ Len(status'[s].list) = Len(status[s].list) + 1
  /\ faults' = faults + 1
  /\ ~pathExists(deploy[modules[status[s].idx].name], "package.json")

\* C34: when the deployed and the latest version of a module both resolve
\* to "unknown" (no deployed package.json, remote unreachable),
\* getModulesStatus reports the module as "up-to-date".
C34_UnknownEntries ==
  /\ \A ls \in Unreachable : getGitLatestVersion(ls) = Unknown
  /\ \A e \in StatusEntries :
       (e.currentVersion = Unknown /\ e.latestVersion = Unknown) => e.status = "up-to-date"

C34_UnresolvedStep ==
  \A s \in Slots :
    UnresolvedEntryStep(s) =>
      LET e == status'[s].list[Len(status'[s].list)] IN
        /\ e.name = modules[status[s].idx].name
        /\ e.currentVersion = Unknown
        /\ e.latestVersion = Unknown
        /\ e.status = "up-to-date"

C34_BothUnknownUpToDate == []C34_UnknownEntries /\ [][C34_UnresolvedStep]_vars

\* A status call returned an entry with both versions "unknown" for a module
\* without deployed package.json, after a lookup of the remote failed.
C34_Witness ==
  \E s \in Slots :
    /\ Finished(s) /\ resp[s].kind = "status" /\ faults = 1 /\ runs = 0
    /\ \E e \in Range(resp[s].list) :
         /\ ~pathExists(deploy[e.name], "package.json")
         /\ e.currentVersion = Unknown /\ e.latestVersion = Unknown
         /\ e.status = "up-to-date"

====
